---- MODULE Spec2Model ----
(***************************************************************************)
(* Student record store of src/app.py: the CSV-backed table, the script   *)
(* runs that load it, mutate the in-memory copy and write it back, and    *)
(* the search over it.                                                     *)
(*                                                                         *)
(* One action is one run of the script, started by one interaction: every *)
(* run begins with df = load_data() (line 83) and a handler acts on that  *)
(* copy, the parameter d of the steps.  df is the table in memory when the *)
(* run ends, saved the frame the run handed to save_data (NoFrame when it  *)
(* saved nothing).  Every run also begins with config = load_config()     *)
(* (line 82); cfg is the configuration in use and cfgFile the file behind *)
(* it.                                                                     *)
(* Text is a sequence of characters; a cell of a DataFrame is a    *)
(* number, a text, NaN or None; a field of the CSV file is a number, a    *)
(* text or the empty field.                                               *)
(***************************************************************************)
EXTENDS Integers, Sequences, FiniteSets, TLC

VARIABLES file, df, saved, cfg, op, msg, results, daShown,
          cfgFile,          \* config/config.json
          pc, sdf, smsg     \* concurrent sessions: position, table in memory, message

vars == <<file, df, saved, cfg, op, msg, results, daShown, cfgFile, pc, sdf, smsg>>

\* The state of the sessions that run the script side by side.
sessions == <<pc, sdf, smsg>>

Sessions == {1, 2}

(***************************************************************************)
(* Bounds of the model.                                                    *)
(***************************************************************************)
MaxRows == 2
MaxId == 3

(***************************************************************************)
(* Cells and text.                                                         *)
(***************************************************************************)
NaN == [k |-> "nan", n |-> 0, s |-> <<>>]
None == [k |-> "none", n |-> 0, s |-> <<>>]
Num(i) == [k |-> "num", n |-> i, s |-> <<>>]
Str(t) == [k |-> "str", n |-> 0, s |-> t]

IsNA(c) == c.k \in {"nan", "none"}

\* Python truthiness of a form value: None and "" are falsy.
Truthy(c) == (c.k = "str" /\ c.s # <<>>) \/ (c.k = "num" /\ c.n # 0)

UpperToLower == [A |-> "a", D |-> "d", I |-> "i", L |-> "l", M |-> "m", N |-> "n", U |-> "u", Z |-> "z"]

LowerChar(ch) == IF ch \in DOMAIN UpperToLower THEN UpperToLower[ch] ELSE ch

Lower(t) == [i \in 1..Len(t) |-> LowerChar(t[i])]

RemoveSpaces(t) == SelectSeq(t, LAMBDA ch : ch # " ")

InSeq(sq, x) == \E i \in 1..Len(sq) : sq[i] = x

SeqToSet(sq) == {sq[i] : i \in 1..Len(sq)}

(***************************************************************************)
(* pandas: DataFrames.  A DataFrame is its ordered columns and its rows,  *)
(* each row a function from the column names to cells.                    *)
(***************************************************************************)
DataFrame(columns, rws) == [cols |-> columns, rows |-> rws]

\* Reindex one row on a column list; a column the row lacks is `fill`.
Reindex(row, columns, fill) ==
    [c \in SeqToSet(columns) |-> IF c \in DOMAIN row THEN row[c] ELSE fill]

\* pd.concat([a, b], ignore_index=True): union of the columns in order of
\* appearance, rows of a then rows of b, absent cells NaN.
pd_concat(a, b) ==
    LET columns == a.cols \o SelectSeq(b.cols, LAMBDA c : ~InSeq(a.cols, c))
        all == a.rows \o b.rows
    IN  DataFrame(columns, [i \in 1..Len(all) |-> Reindex(all[i], columns, NaN)])

\* for col in columns: if col not in df.columns: df[col] = None.  Each
\* column of the list that the frame lacks is appended, in the order of the
\* list, as a column of None.
AddMissingColumns(d, columns) ==
    LET missing == SelectSeq(columns, LAMBDA c : ~InSeq(d.cols, c))
    IN  IF missing = <<>> THEN d
        ELSE DataFrame(d.cols \o missing,
                       [i \in 1..Len(d.rows) |-> Reindex(d.rows[i], d.cols \o missing, None)])

\* Series.max() with skipna: the largest number, NaN when there is none.
SeriesMax(d, col) ==
    LET nums == {d.rows[i][col].n : i \in {j \in 1..Len(d.rows) : d.rows[j][col].k = "num"}}
    IN  IF nums = {} THEN NaN ELSE Num(CHOOSE m \in nums : \A x \in nums : x <= m)

\* x + 1 on a cell: NaN + 1 is NaN.
PlusOne(c) == IF c.k = "num" THEN Num(c.n + 1) ELSE NaN

\* dtype of a column: object when it holds text or None (or has no row),
\* float64 when a number is missing, int64 otherwise.
Dtype(d, col) ==
    IF Len(d.rows) = 0 \/ \E i \in 1..Len(d.rows) : d.rows[i][col].k \in {"str", "none"}
    THEN "object"
    ELSE IF \E i \in 1..Len(d.rows) : d.rows[i][col].k = "nan" THEN "float64"
    ELSE "int64"

(***************************************************************************)
(* pandas: CSV.  A field of the file is a number, a text, or empty.       *)
(***************************************************************************)
EmptyField == Str(<<>>)

\* Texts read_csv takes for a missing value (default na_values).
NAValues == {<<>>, <<"N", "A">>, <<"n", "a", "n">>, <<"N", "a", "N">>, <<"n", "u", "l", "l">>}

\* DataFrame.to_csv, one cell: a missing value is written as the empty field.
ToCsvField(c) == IF IsNA(c) THEN EmptyField ELSE c

\* read_csv, one field: the empty field and the NA texts are read as NaN.
ReadCsvField(f) == IF f.k = "str" /\ f.s \in NAValues THEN NaN ELSE f

AbsentFile == [st |-> "absent", cols |-> <<>>, rows |-> <<>>]
CorruptFile == [st |-> "corrupt", cols |-> <<>>, rows |-> <<>>]

\* df.to_csv(path, index=False)
to_csv(d) ==
    [st |-> "ok", cols |-> d.cols,
     rows |-> [i \in 1..Len(d.rows) |->
                 [c \in DOMAIN d.rows[i] |-> ToCsvField(d.rows[i][c])]]]

\* pd.read_csv(path) of a file that parses
read_csv(f) ==
    DataFrame(f.cols,
              [i \in 1..Len(f.rows) |->
                 [c \in DOMAIN f.rows[i] |-> ReadCsvField(f.rows[i][c])]])

(***************************************************************************)
(* Record store: load_data, create_empty_dataframe, save_data.            *)
(***************************************************************************)
CanonicalColumns ==
    <<"id", "nom", "prenom", "specialite", "moyenne_generale",
      "age", "date_inscription", "email", "credits", "statut">>

required_columns_NoDate ==
    <<"id", "nom", "prenom", "specialite", "moyenne_generale", "age", "email">>

required_columns ==
    <<"id", "nom", "prenom", "specialite", "moyenne_generale", "age", "date_inscription", "email">>

create_empty_dataframe == DataFrame(CanonicalColumns, <<>>)

load_data(f) ==
    IF f.st = "ok"
    THEN AddMissingColumns(read_csv(f), required_columns)
    ELSE create_empty_dataframe

save_data(d) == to_csv(d)

(***************************************************************************)
(* Configuration (lines 28-38) as far as the record store reads it.  The  *)
(* specialty list is abbreviated to its first entry; a configuration file *)
(* with an empty list is the one way the specialty selectbox yields None. *)
(***************************************************************************)
Informatique == <<"I", "n", "f", "o">>
Mathematiques == <<"M", "a", "t", "h">>

default_config ==
    [university_name |-> <<"U", " ", "A", "z">>,
     max_students |-> 1000,
     min_age |-> 16, max_age |-> 70,
     specialties |-> <<Informatique>>,
     version |-> <<"1", ".", "0">>]

NoSpecialtiesConfig == [default_config EXCEPT !.specialties = <<>>]

Configs == {default_config, NoSpecialtiesConfig}

(***************************************************************************)
(* config/config.json and load_config (lines 26-49).  The file is absent, *)
(* or holds a text that json.load rejects, or holds a JSON value.         *)
(* json.dump writes a dict of texts, integers and a list of texts, and    *)
(* json.load reads that text back as the same dict, so a parseable file   *)
(* is kept as the value it holds.                                          *)
(***************************************************************************)
\* What a name holds before anything is assigned to it, and what stands in
\* a file for the JSON value it does not have.
Nothing == [nothing |-> TRUE]

AbsentConfigFile == [st |-> "absent", json |-> Nothing, text |-> <<>>]

UnparseableConfigFile(text) == [st |-> "corrupt", json |-> Nothing, text |-> text]

\* with open(CONFIG_PATH, 'w') as f: json.dump(config, f, indent=4)
json_dump(c) == [st |-> "ok", json |-> c, text |-> <<>>]

\* json.load(f): the value in the file, or an exception
json_load(f) ==
    IF f.st = "ok" THEN [raised |-> FALSE, value |-> f.json]
    ELSE [raised |-> TRUE, value |-> Nothing]

load_config_OverwritesUnparseable(f) ==
    IF f.st # "absent" /\ ~json_load(f).raised
    THEN [config |-> json_load(f).value, file |-> f]
    ELSE [config |-> default_config, file |-> json_dump(default_config)]

\* load_config(): the configuration it returns and the file it leaves behind.
load_config(f) ==
    IF f.st # "absent"
    THEN IF ~json_load(f).raised
         THEN [config |-> json_load(f).value, file |-> f]
         ELSE [config |-> default_config, file |-> f]
    ELSE [config |-> default_config, file |-> json_dump(default_config)]

\* A JSON object that parses but is not a full configuration.
PartialConfig == [version |-> <<"0", ".", "9">>]

CustomConfig == [default_config EXCEPT !.university_name = <<"U", "B">>, !.max_age = 60]

\* The files the application can find when it starts.
ConfigFiles ==
    {AbsentConfigFile, UnparseableConfigFile(<<>>), UnparseableConfigFile(<<"{">>),
     json_dump(default_config), json_dump(NoSpecialtiesConfig),
     json_dump(CustomConfig), json_dump(PartialConfig)}

\* The keys the script reads from config on its way down the page; a run
\* whose config lacks one of them ends with an exception (first at line 89).
ConfigRenders(c) ==
    {"university_name", "specialties", "min_age", "max_age", "version"} \subseteq DOMAIN c

\* What the operator can type as the name of the university (line 89).
UniversityNames == {<<"U", " ", "A", "z">>, <<"U", "B">>}

(***************************************************************************)
(* Streamlit widgets.                                                      *)
(***************************************************************************)
\* st.selectbox(options): one of the options, None when there is none.
SelectboxChoices(options) ==
    IF options = <<>> THEN {None} ELSE {Str(options[i]) : i \in 1..Len(options)}

\* st.button(label): True only in the run that its own click started.
ButtonValue(button, clicked) == button = clicked

(***************************************************************************)
(* Inputs of the forms.  moyenne_generale is counted in half points, the  *)
(* step of its slider (12.0 is 24).                                        *)
(***************************************************************************)
Noms == {<<>>, <<"A", "n">>}
Prenoms == {<<>>, <<"L", "i">>}
Emails == {<<>>, <<"l", "@", "u">>}
Dates == {<<"d", "1">>}
Actif == <<"A", "c", "t", "i", "f">>
Diplome == <<"D", "i", "p", "l">>
Statuts == <<Actif, Diplome>>
Passwords == {"SUPPRIMER", "supprimer", ""}

DefaultMoyenne == 24
DefaultAge == 20
DefaultCredits == 180
MaxMoyenne == 40

(***************************************************************************)
(* Files that exist outside the program: what an operator uploads, and    *)
(* what may lie at CSV_PATH when the program is first run.                *)
(***************************************************************************)
CsvRow(columns, row) == Reindex(row, columns, EmptyField)

\* A full export: two students, the second without email.
UploadFull ==
    [st |-> "ok", cols |-> CanonicalColumns,
     rows |-> << CsvRow(CanonicalColumns,
                   [id |-> Num(1), nom |-> Str(<<"A", "n">>), prenom |-> Str(<<"L", "i">>),
                    specialite |-> Str(Informatique), moyenne_generale |-> Num(24),
                    age |-> Num(20), date_inscription |-> Str(<<"d", "0">>),
                    email |-> Str(<<"l", "@", "u">>), credits |-> Num(180),
                    statut |-> Str(Actif)]),
                 CsvRow(CanonicalColumns,
                   [id |-> Num(2), nom |-> Str(<<"M", "a">>), prenom |-> Str(<<"L", "u">>),
                    specialite |-> Str(Mathematiques), moyenne_generale |-> Num(30),
                    age |-> Num(22), date_inscription |-> Str(<<"d", "0">>),
                    email |-> EmptyField, credits |-> Num(120),
                    statut |-> Str(Diplome)]) >>]

\* The columns the upload help names (line 501): no date, credits, statut.
HelpColumns == <<"id", "nom", "prenom", "specialite", "moyenne_generale", "age", "email">>

UploadLegacy ==
    [st |-> "ok", cols |-> HelpColumns,
     rows |-> << CsvRow(HelpColumns,
                   [id |-> Num(2), nom |-> Str(<<"Z", "a">>), prenom |-> Str(<<"A", "l">>),
                    specialite |-> Str(Informatique), moyenne_generale |-> Num(20),
                    age |-> Num(19), email |-> Str(<<"z", "@", "u">>)]) >>]

\* A roster whose id column was left blank.
UploadNoId ==
    [st |-> "ok", cols |-> HelpColumns,
     rows |-> << CsvRow(HelpColumns,
                   [id |-> EmptyField, nom |-> Str(<<"D", "u">>), prenom |-> Str(<<"U", "l">>),
                    specialite |-> Str(Mathematiques), moyenne_generale |-> Num(28),
                    age |-> Num(21), email |-> Str(<<"d", "@", "u">>)]) >>]

Uploads == {UploadLegacy, UploadNoId, CorruptFile}

InitFiles == {AbsentFile, CorruptFile, UploadFull, UploadLegacy, UploadNoId}

(***************************************************************************)
(* Create (lines 186-232).                                                 *)
(***************************************************************************)
NewId_NoIncrement(d) ==
    IF InSeq(d.cols, "id") /\ Len(d.rows) > 0 THEN SeriesMax(d, "id") ELSE Num(1)

\* line 210
NewId(d) ==
    IF InSeq(d.cols, "id") /\ Len(d.rows) > 0 THEN PlusOne(SeriesMax(d, "id")) ELSE Num(1)

\* line 219
DerivedEmail(prenom, nom, university_name) ==
    Lower(prenom) \o <<".">> \o Lower(nom) \o <<"@">>
        \o RemoveSpaces(Lower(university_name)) \o <<".", "f", "r">>

\* lines 211-222
NewStudent(d, f, university_name) ==
    [id |-> NewId(d),
     nom |-> f.nom,
     prenom |-> f.prenom,
     specialite |-> f.specialite,
     moyenne_generale |-> f.moyenne,
     age |-> f.age,
     date_inscription |-> Str(f.now),
     email |-> IF Truthy(f.email) THEN f.email
               ELSE Str(DerivedEmail(f.prenom.s, f.nom.s, university_name)),
     credits |-> f.credits,
     statut |-> Str(Actif)]

CreateValid_SkipsPrenom(f) == Truthy(f.nom) /\ Truthy(f.specialite)

\* line 209
CreateValid(f) == Truthy(f.nom) /\ Truthy(f.prenom) /\ Truthy(f.specialite)

CreateForms(c) ==
    {[nom |-> Str(nm), prenom |-> Str(pr), specialite |-> sp, moyenne |-> Num(DefaultMoyenne),
      age |-> Num(DefaultAge), email |-> Str(em), credits |-> Num(DefaultCredits), now |-> dt] :
        nm \in Noms, pr \in Prenoms, sp \in SelectboxChoices(c.specialties),
        em \in Emails, dt \in Dates}

NoResults == DataFrame(<<>>, <<>>)

NoFrame == DataFrame(<<>>, <<>>)

CreateStep(f, d) ==
        LET new_df == DataFrame(CanonicalColumns, <<NewStudent(d, f, cfg.university_name)>>)
        IN  /\ CreateValid(f) =>
                 /\ Len(d.rows) < MaxRows
                 /\ NewId(d).k = "num" => NewId(d).n <= MaxId
            /\ IF CreateValid(f)
               THEN /\ df' = pd_concat(d, new_df)
                    /\ saved' = df'
                    /\ file' = save_data(df')
                    /\ msg' = "success"
               ELSE /\ df' = d
                    /\ saved' = NoFrame
                    /\ file' = file
                    /\ msg' = "error"
            /\ op' = "create"
            /\ daShown' = FALSE
            /\ results' = NoResults
            /\ UNCHANGED <<cfg, cfgFile, sessions>>

Create == LET d == load_data(file) IN \E f \in CreateForms(cfg) : CreateStep(f, d)

(***************************************************************************)
(* Update (lines 234-303) and delete (lines 305-338).                      *)
(***************************************************************************)
\* line 246 / 317: int(selected_student.split(" - ")[0]) succeeds only on
\* the text of an integer, which is what an int64 id column formats to.
SelectedIdParses(d) == Dtype(d, "id") = "int64"

\* df[df['id'] == student_id].iloc[0]
FirstWithId(d, student_id) ==
    d.rows[CHOOSE i \in 1..Len(d.rows) :
              /\ d.rows[i]["id"] = Num(student_id)
              /\ \A j \in 1..(i - 1) : d.rows[j]["id"] # Num(student_id)]

\* lines 264-274: float() and int() of the stored values, within the
\* bounds of the slider and of the number input.
UpdateFormRenders(student_data, c) ==
    /\ student_data["moyenne_generale"].k = "num"
    /\ student_data["moyenne_generale"].n \in 0..MaxMoyenne
    /\ student_data["age"].k = "num"
    /\ student_data["age"].n \in c.min_age..c.max_age

\* df.loc[df['id'] == student_id, col] = val, for one column; a column the
\* frame lacks is created, NaN in the other rows.
SetWhereId(d, student_id, col, val) ==
    LET columns == IF InSeq(d.cols, col) THEN d.cols ELSE Append(d.cols, col)
    IN  DataFrame(columns,
          [i \in 1..Len(d.rows) |->
              [c \in SeqToSet(columns) |->
                  IF c = col /\ d.rows[i]["id"] = Num(student_id) THEN val
                  ELSE IF c \in DOMAIN d.rows[i] THEN d.rows[i][c] ELSE NaN]])

update_cols == <<"nom", "prenom", "specialite", "moyenne_generale", "age", "email", "credits", "statut">>

update_values(f) ==
    <<f.nom, f.prenom, f.specialite, f.moyenne, f.age, f.email, f.credits, f.statut>>

\* lines 296-297
RECURSIVE UpdateLoop(_, _, _, _)
UpdateLoop(d, student_id, columns, vals) ==
    IF columns = <<>> THEN d
    ELSE UpdateLoop(SetWhereId(d, student_id, Head(columns), Head(vals)),
                    student_id, Tail(columns), Tail(vals))

UpdateForms(c) ==
    {[nom |-> Str(<<"Z", "a">>), prenom |-> Str(<<"L", "i">>), specialite |-> sp,
      moyenne |-> Num(30), age |-> Num(21), email |-> Str(em), credits |-> Num(120),
      statut |-> Str(Statuts[2])] :
        sp \in SelectboxChoices(c.specialties), em \in Emails}

\* The student of row i of the selectbox is selected and the form submitted.
UpdateStep(i, f, d) ==
    LET student_id == d.rows[i]["id"].n
    IN  /\ Len(d.rows) > 0
        /\ SelectedIdParses(d)
        /\ UpdateFormRenders(FirstWithId(d, student_id), cfg)
        /\ saved' = UpdateLoop(d, student_id, update_cols, update_values(f))
        /\ file' = save_data(saved')
        /\ df' = load_data(file')
        /\ op' = "update"
        /\ msg' = "none"
        /\ daShown' = FALSE
        /\ results' = NoResults
        /\ UNCHANGED <<cfg, cfgFile, sessions>>

Update ==
    LET d == load_data(file)
    IN  \E i \in 1..Len(d.rows), f \in UpdateForms(cfg) : UpdateStep(i, f, d)

WithoutId_KeepsSmaller(d, student_id) ==
    DataFrame(d.cols, SelectSeq(d.rows, LAMBDA r : r["id"].n < student_id))

\* line 329: df[df['id'] != student_id]
WithoutId(d, student_id) ==
    DataFrame(d.cols, SelectSeq(d.rows, LAMBDA r : r["id"] # Num(student_id)))

\* The student of row i of the selectbox is selected and the deletion confirmed.
DeleteStep(i, d) ==
    LET student_id == d.rows[i]["id"].n
    IN  /\ Len(d.rows) > 0
        /\ SelectedIdParses(d)
        /\ saved' = WithoutId(d, student_id)
        /\ file' = save_data(saved')
        /\ df' = load_data(file')
        /\ op' = "delete"
        /\ msg' = "none"
        /\ daShown' = FALSE
        /\ results' = NoResults
        /\ UNCHANGED <<cfg, cfgFile, sessions>>

Delete == LET d == load_data(file) IN \E i \in 1..Len(d.rows) : DeleteStep(i, d)

(***************************************************************************)
(* Search (lines 340-353).                                                 *)
(***************************************************************************)
DigitChar == <<"0", "1", "2", "3", "4", "5", "6", "7", "8", "9">>

RECURSIVE Digits(_)
Digits(n) == IF n < 10 THEN <<DigitChar[n + 1]>> ELSE Digits(n \div 10) \o <<DigitChar[(n % 10) + 1]>>

\* Series.astype(str), one cell: str() of the value, also of a missing one.
AsTypeStr(c) ==
    CASE c.k = "str" -> c.s
      [] c.k = "nan" -> <<"n", "a", "n">>
      [] c.k = "none" -> <<"N", "o", "n", "e">>
      [] c.k = "num" -> Digits(c.n)

\* Series.str.contains(pat): pat is a regular expression (regex=True is the
\* default) searched anywhere in the text; "." stands for any character.
RegexContains(pat, t) ==
    \E start \in 0..(Len(t) - Len(pat)) :
        \A j \in 1..Len(pat) : pat[j] = "." \/ pat[j] = t[start + j]

\* lines 346-351, one row
SearchMask(d, row, search_query) ==
    \E i \in 1..Len(d.cols) :
        /\ Dtype(d, d.cols[i]) = "object"
        /\ RegexContains(Lower(search_query), Lower(AsTypeStr(row[d.cols[i]])))

\* line 353: df[mask]
SearchResults(d, search_query) ==
    DataFrame(d.cols, SelectSeq(d.rows, LAMBDA r : SearchMask(d, r, search_query)))

Queries == {<<"a", "n">>, <<"L", "I">>, <<"l", ".">>}

SearchStep(q, d) ==
    /\ q # <<>>
    /\ df' = d
    /\ results' = SearchResults(d, q)
    /\ op' = "search"
    /\ msg' = "none"
    /\ daShown' = FALSE
    /\ saved' = NoFrame
    /\ UNCHANGED <<file, cfg, cfgFile, sessions>>

Search == LET d == load_data(file) IN \E q \in Queries : SearchStep(q, d)

(***************************************************************************)
(* Data management (lines 449-481): refresh and delete-all.                *)
(***************************************************************************)
\* lines 466-468
Refresh ==
    /\ df' = load_data(file)
    /\ op' = "refresh"
    /\ msg' = "none"
    /\ daShown' = FALSE
    /\ results' = NoResults
    /\ saved' = NoFrame
    /\ UNCHANGED <<file, cfg, cfgFile, sessions>>

\* lines 471-481, in a run started by a click on `clicked`, with `password`
\* in the text input: what the section leaves in memory and on disk, what
\* it shows, and whether the password input and the confirm button are on
\* the page afterwards.
DeleteAllSection(clicked, password, d, f) ==
    IF ButtonValue("delete_all", clicked)
    THEN IF ButtonValue("confirm_all", clicked)
         THEN IF password = "SUPPRIMER"
              THEN [df |-> load_data(save_data(create_empty_dataframe)),
                    saved |-> create_empty_dataframe,
                    file |-> save_data(create_empty_dataframe),
                    msg |-> "none", shown |-> FALSE]
              ELSE [df |-> d, saved |-> NoFrame, file |-> f, msg |-> "error", shown |-> TRUE]
         ELSE [df |-> d, saved |-> NoFrame, file |-> f, msg |-> "warning", shown |-> TRUE]
    ELSE [df |-> d, saved |-> NoFrame, file |-> f, msg |-> "none", shown |-> FALSE]

\* A click on "Supprimer TOUTES les données".
PressDeleteAll ==
    LET r == DeleteAllSection("delete_all", "", load_data(file), file)
    IN  /\ df' = r.df
        /\ saved' = r.saved
        /\ file' = r.file
        /\ msg' = r.msg
        /\ daShown' = r.shown
        /\ op' = "delete_all"
        /\ results' = NoResults
        /\ UNCHANGED <<cfg, cfgFile, sessions>>

\* A click on "Confirmer la suppression totale", which is on the page only
\* after the run of PressDeleteAll, with a phrase typed into the input.
ConfirmStep(password, d) ==
    LET r == DeleteAllSection("confirm_all", password, d, file)
    IN  /\ daShown
        /\ df' = r.df
        /\ saved' = r.saved
        /\ file' = r.file
        /\ msg' = r.msg
        /\ daShown' = r.shown
        /\ op' = "confirm_all"
        /\ results' = NoResults
        /\ UNCHANGED <<cfg, cfgFile, sessions>>

ConfirmDeleteAll ==
    LET d == load_data(file) IN \E password \in Passwords : ConfirmStep(password, d)

(***************************************************************************)
(* Advanced tools (lines 483-544): CSV import and reset.                   *)
(***************************************************************************)
Imported_NewRowsFirst(d, new_df, import_option) ==
    IF import_option = "replace" THEN new_df ELSE pd_concat(new_df, d)

\* lines 518-522
Imported(d, new_df, import_option) ==
    IF import_option = "replace" THEN new_df ELSE pd_concat(d, new_df)

ImportStep(u, import_option, d) ==
    /\ IF u.st = "ok"
       THEN /\ Len(Imported(d, read_csv(u), import_option).rows) <= MaxRows
            /\ saved' = Imported(d, read_csv(u), import_option)
            /\ file' = save_data(saved')
            /\ df' = load_data(file')
            /\ msg' = "none"
       ELSE /\ file' = file
            /\ saved' = NoFrame
            /\ df' = d
            /\ msg' = "error"
    /\ op' = "import"
    /\ daShown' = FALSE
    /\ results' = NoResults
    /\ UNCHANGED <<cfg, cfgFile, sessions>>

Import ==
    LET d == load_data(file)
    IN  \E u \in Uploads, import_option \in {"replace", "append"} : ImportStep(u, import_option, d)

\* lines 539-544: both files are removed; the next run finds neither and
\* load_config falls back to the defaults, which it writes out.
Reset ==
    /\ file' = AbsentFile
    /\ cfg' = load_config(AbsentConfigFile).config
    /\ cfgFile' = load_config(AbsentConfigFile).file
    /\ df' = load_data(file')
    /\ saved' = NoFrame
    /\ op' = "reset"
    /\ msg' = "none"
    /\ daShown' = FALSE
    /\ results' = NoResults
    /\ UNCHANGED sessions

\* A run of the script that no widget started (the page is opened or
\* reloaded): lines 82-83, then the page is drawn from config and df.
RunScript ==
    LET loaded == load_config(cfgFile)
    IN  /\ cfg' = loaded.config
        /\ cfgFile' = loaded.file
        /\ df' = load_data(file)
        /\ saved' = NoFrame
        /\ op' = "run"
        /\ msg' = IF ConfigRenders(loaded.config) THEN "none" ELSE "exception"
        /\ daShown' = FALSE
        /\ results' = NoResults
        /\ UNCHANGED <<file, sessions>>

\* lines 89-96: the button "Enregistrer la configuration".  The button is on
\* the page, so the run before this one drew it.
SaveConfigurationStep(university_name) ==
    LET loaded == load_config(cfgFile)
        config == [loaded.config EXCEPT !.university_name = university_name]
    IN  /\ ConfigRenders(cfg)
        /\ ConfigRenders(loaded.config)
        /\ cfg' = config
        /\ cfgFile' = json_dump(config)
        /\ df' = load_data(file)
        /\ saved' = NoFrame
        /\ op' = "saveconfig"
        /\ msg' = "success"
        /\ daShown' = FALSE
        /\ results' = NoResults
        /\ UNCHANGED <<file, sessions>>

SaveConfiguration == \E university_name \in UniversityNames : SaveConfigurationStep(university_name)

\* The create form and the reset button of a page that a run has drawn.
ConfigCreate == ConfigRenders(cfg) /\ Create

ConfigReset == ConfigRenders(cfg) /\ Reset

(***************************************************************************)
(* The program.                                                            *)
(***************************************************************************)
Init ==
    /\ file \in InitFiles
    /\ cfg \in Configs
    /\ cfgFile = json_dump(cfg)
    /\ df = load_data(file)
    /\ saved = NoFrame
    /\ op = "start"
    /\ msg = "none"
    /\ results = NoResults
    /\ daShown = FALSE
    /\ pc = [s \in Sessions |-> "idle"]
    /\ sdf = [s \in Sessions |-> NoFrame]
    /\ smsg = [s \in Sessions |-> "none"]

Next ==
    \/ Create
    \/ Update
    \/ Delete
    \/ Search
    \/ Refresh
    \/ PressDeleteAll
    \/ ConfirmDeleteAll
    \/ Import
    \/ Reset

Spec == Init /\ [][Next]_vars

(***************************************************************************)
(* The configuration store and the handlers that read or write it.  The   *)
(* application starts on whatever config/config.json the deployment left; *)
(* nothing has run yet, so no configuration and no table is in memory.    *)
(***************************************************************************)
InitConfig ==
    /\ cfgFile \in ConfigFiles
    /\ cfg = Nothing
    /\ file = AbsentFile
    /\ df = NoFrame
    /\ saved = NoFrame
    /\ op = "start"
    /\ msg = "none"
    /\ results = NoResults
    /\ daShown = FALSE
    /\ pc = [s \in Sessions |-> "idle"]
    /\ sdf = [s \in Sessions |-> NoFrame]
    /\ smsg = [s \in Sessions |-> "none"]

NextConfig ==
    \/ RunScript
    \/ SaveConfiguration
    \/ ConfigCreate
    \/ ConfigReset

SpecConfig == InitConfig /\ [][NextConfig]_vars

(***************************************************************************)
(* Two sessions.  Streamlit runs the script of each browser session in    *)
(* its own thread, and every run takes its own copy of the table at line  *)
(* 83 and writes the whole of it at line 227; nothing orders the runs of  *)
(* two sessions between these two lines.  pc[s] is where the run of       *)
(* session s stands, sdf[s] its df, smsg[s] the message on its page.      *)
(***************************************************************************)
Written_OnFreshLoad(d, f, university_name) ==
    pd_concat(load_data(file),
              DataFrame(CanonicalColumns, <<NewStudent(load_data(file), f, university_name)>>))

\* lines 210-226: df after the new student is appended to the copy of the run
Written(d, f, university_name) ==
    pd_concat(d, DataFrame(CanonicalColumns, <<NewStudent(d, f, university_name)>>))

\* lines 82-83 of a run that the submit of the create form started
SessionLoad(s) ==
    /\ pc[s] = "idle"
    /\ pc' = [pc EXCEPT ![s] = "loaded"]
    /\ sdf' = [sdf EXCEPT ![s] = load_data(file)]
    /\ smsg' = [smsg EXCEPT ![s] = "none"]
    /\ UNCHANGED <<file, df, saved, cfg, cfgFile, op, msg, results, daShown>>

\* lines 206-232 of that run
SessionCreateStep(s, f) ==
    /\ pc[s] = "loaded"
    /\ CreateValid(f) =>
          /\ Len(sdf[s].rows) < MaxRows
          /\ NewId(sdf[s]).k = "num" => NewId(sdf[s]).n <= MaxId
    /\ IF CreateValid(f)
       THEN /\ sdf' = [sdf EXCEPT ![s] = Written(sdf[s], f, cfg.university_name)]
            /\ file' = save_data(sdf'[s])
            /\ smsg' = [smsg EXCEPT ![s] = "success"]
       ELSE /\ sdf' = sdf
            /\ file' = file
            /\ smsg' = [smsg EXCEPT ![s] = "error"]
    /\ pc' = [pc EXCEPT ![s] = "idle"]
    /\ UNCHANGED <<df, saved, cfg, cfgFile, op, msg, results, daShown>>

SessionCreate(s) == \E f \in CreateForms(cfg) : SessionCreateStep(s, f)

InitSessions ==
    /\ file \in {AbsentFile, UploadLegacy}
    /\ cfg = default_config
    /\ cfgFile = json_dump(cfg)
    /\ df = NoFrame
    /\ saved = NoFrame
    /\ op = "start"
    /\ msg = "none"
    /\ results = NoResults
    /\ daShown = FALSE
    /\ pc = [s \in Sessions |-> "idle"]
    /\ sdf = [s \in Sessions |-> NoFrame]
    /\ smsg = [s \in Sessions |-> "none"]

NextSessions ==
    \/ \E s \in Sessions : SessionLoad(s)
    \/ \E s \in Sessions : SessionCreate(s)

SpecSessions == InitSessions /\ [][NextSessions]_vars

(***************************************************************************)
(* Vocabulary of the properties.                                           *)
(***************************************************************************)
\* Two cells hold the same value; two missing values count as the same.
CellEq(a, b) == (IsNA(a) /\ IsNA(b)) \/ a = b

RowEq(r1, r2) == DOMAIN r1 = DOMAIN r2 /\ \A c \in DOMAIN r1 : CellEq(r1[c], r2[c])

RowsEq(rs1, rs2) == Len(rs1) = Len(rs2) /\ \A i \in 1..Len(rs1) : RowEq(rs1[i], rs2[i])

FrameEq(d1, d2) == d1.cols = d2.cols /\ RowsEq(d1.rows, d2.rows)

\* Two records carry the same identifier.
SameId(r1, r2) == r1["id"].k = "num" /\ r2["id"].k = "num" /\ r1["id"].n = r2["id"].n

UniqueIds(d) == \A i, j \in 1..Len(d.rows) : i # j => ~SameId(d.rows[i], d.rows[j])

\* A form value left empty.
EmptyInput(c) == c = None \/ c = Str(<<>>)

(***************************************************************************)
(* C1.  Original statement: in every reachable state of the table no two  *)
(* records have the same id.                                               *)
(***************************************************************************)
C1_IdsAlwaysUnique == UniqueIds(load_data(file))

(***************************************************************************)
(* C1, amended.  A run of create, update, delete, delete-all, refresh,    *)
(* search or reset that starts from a table without repeated ids leaves a *)
(* table without repeated ids; only the CSV import can introduce them.    *)
(***************************************************************************)
C1_UniqueIdsKeptWithoutImport ==
    [][(op' # "import" /\ file' # file /\ UniqueIds(load_data(file)))
          => UniqueIds(load_data(file'))]_vars

C1_Witness ==
    /\ op = "create"
    /\ msg = "success"
    /\ Len(load_data(file).rows) = 2
    /\ UniqueIds(load_data(file))

(***************************************************************************)
(* C2.  A valid create followed by load gives exactly one more record,    *)
(* and the new record's id is 1 for an empty table and otherwise          *)
(* max(existing ids) + 1, greater than every id of the table before.      *)
(***************************************************************************)
C2_CreateAllocatesNextId ==
    [][op' = "create" => LET before == load_data(file) IN \A f \in CreateForms(cfg) :
          (~EmptyInput(f.nom) /\ ~EmptyInput(f.prenom) /\ ~EmptyInput(f.specialite)
           /\ CreateStep(f, before)) =>
             LET after == load_data(file')
                 new_id == after.rows[Len(after.rows)]["id"]
             IN  /\ Len(after.rows) = Len(before.rows) + 1
                 /\ new_id.k = "num"
                 /\ Len(before.rows) = 0 => new_id.n = 1
                 /\ \A i \in 1..Len(before.rows) :
                       before.rows[i]["id"].k = "num" => new_id.n > before.rows[i]["id"].n
                 /\ Len(before.rows) > 0 =>
                       \E i \in 1..Len(before.rows) :
                           /\ before.rows[i]["id"].k = "num"
                           /\ new_id.n = before.rows[i]["id"].n + 1]_vars

(***************************************************************************)
(* C3.  A create submitted with an empty nom, prenom or specialite shows  *)
(* an error and changes neither the table in memory nor the file.         *)
(***************************************************************************)
C3_InvalidCreateChangesNothing ==
    [][op' = "create" => LET before == load_data(file) IN \A f \in CreateForms(cfg) :
          ((EmptyInput(f.nom) \/ EmptyInput(f.prenom) \/ EmptyInput(f.specialite))
           /\ CreateStep(f, before)) =>
             /\ msg' = "error"
             /\ file' = file
             /\ df' = before]_vars

C3_Witness ==
    /\ op = "create"
    /\ msg = "error"
    /\ Len(df.rows) > 0

(***************************************************************************)
(* C4.  update(id, fields) followed by load yields a record with that id  *)
(* whose nom, prenom, specialite, moyenne_generale, age, email, credits   *)
(* and statut equal the submitted values, and whose id and                *)
(* date_inscription are those of before the update.                       *)
(***************************************************************************)
C4_UpdateReflectsFields ==
    [][op' = "update" => LET before == load_data(file) IN
       \A i \in 1..Len(before.rows), f \in UpdateForms(cfg) :
          UpdateStep(i, f, before) =>
             LET after == load_data(file')
             IN  /\ Len(after.rows) = Len(before.rows)
                 /\ \A j \in 1..Len(before.rows) :
                       SameId(before.rows[j], before.rows[i]) =>
                          /\ SameId(after.rows[j], before.rows[j])
                          /\ CellEq(after.rows[j]["date_inscription"],
                                    before.rows[j]["date_inscription"])
                          /\ CellEq(after.rows[j]["nom"], f.nom)
                          /\ CellEq(after.rows[j]["prenom"], f.prenom)
                          /\ CellEq(after.rows[j]["specialite"], f.specialite)
                          /\ CellEq(after.rows[j]["moyenne_generale"], f.moyenne)
                          /\ CellEq(after.rows[j]["age"], f.age)
                          /\ CellEq(after.rows[j]["email"], f.email)
                          /\ CellEq(after.rows[j]["credits"], f.credits)
                          /\ CellEq(after.rows[j]["statut"], f.statut)]_vars

C7_SaveLoadRoundTrip ==
    saved.cols = CanonicalColumns => FrameEq(load_data(file), saved)

(***************************************************************************)
(* C6.  search(q), q not empty, returns exactly the rows that contain q,  *)
(* compared case-insensitively as a substring, in at least one text       *)
(* column, in the order of the table, and leaves the table as it was.     *)
(***************************************************************************)
IsSubstring(q, t) ==
    \E start \in 0..(Len(t) - Len(q)) : \A j \in 1..Len(q) : q[j] = t[start + j]

RowContains(d, row, q) ==
    \E c \in SeqToSet(d.cols) :
        /\ Dtype(d, c) = "object"
        /\ row[c].k = "str"
        /\ IsSubstring(Lower(q), Lower(row[c].s))

C6_SearchReturnsExactlyMatches ==
    [][op' = "search" => LET d == load_data(file) IN \A q \in Queries :
          SearchStep(q, d) =>
                 /\ results'.rows = SelectSeq(d.rows, LAMBDA r : RowContains(d, r, q))
                 /\ file' = file
                 /\ df' = d]_vars

(***************************************************************************)
(* C8.  Original statement: load always returns a table whose columns     *)
(* include every column of the ten-column canonical schema.               *)
(***************************************************************************)
C8_LoadHasCanonicalColumns ==
    op = "refresh" => SeqToSet(CanonicalColumns) \subseteq SeqToSet(df.cols)

(***************************************************************************)
(* C8, amended.  load never fails and always returns a table whose        *)
(* columns include id, nom, prenom, specialite, moyenne_generale, age,    *)
(* date_inscription and email: the empty ten-column table when the file   *)
(* is absent or unparseable; otherwise the rows of the file, with each of *)
(* these eight columns that the file lacks added with empty values.       *)
(* credits and statut are not added to a file that lacks them.            *)
(***************************************************************************)
C8_LoadHasRequiredColumns ==
    op = "refresh" =>
        /\ {"id", "nom", "prenom", "specialite", "moyenne_generale", "age",
            "date_inscription", "email"} \subseteq SeqToSet(df.cols)
        /\ file.st # "ok" => df = DataFrame(CanonicalColumns, <<>>)
        /\ file.st = "ok" =>
              /\ SeqToSet(file.cols) \subseteq SeqToSet(df.cols)
              /\ SeqToSet(df.cols) \subseteq SeqToSet(file.cols) \cup
                    {"id", "nom", "prenom", "specialite", "moyenne_generale", "age",
                     "date_inscription", "email"}
              /\ Len(df.rows) = Len(file.rows)
              /\ \A i \in 1..Len(df.rows), c \in SeqToSet(df.cols) :
                    IF c \in SeqToSet(file.cols)
                    THEN CellEq(df.rows[i][c],
                                IF file.rows[i][c] = Str(<<>>) THEN NaN ELSE file.rows[i][c])
                    ELSE IsNA(df.rows[i][c])

C8_Witness ==
    /\ op = "refresh"
    /\ file.st = "ok"
    /\ Len(file.rows) > 0
    /\ ~InSeq(file.cols, "date_inscription")
    /\ InSeq(df.cols, "date_inscription")

(***************************************************************************)
(* C9.  The delete-all flow (press the delete-all button, enter the       *)
(* phrase, press confirm) with the phrase SUPPRIMER leaves a persisted    *)
(* table of 0 records with the canonical schema; with another phrase an   *)
(* error is shown and nothing changes.  Stated for a table that holds at  *)
(* least one record when the flow starts.                                  *)
(***************************************************************************)
C9_DeleteAllFlowEmptiesTable ==
    [][op' = "confirm_all" => LET before == load_data(file) IN \A password \in Passwords :
          (Len(before.rows) > 0 /\ ConfirmStep(password, before)) =>
             IF password = "SUPPRIMER"
             THEN /\ file'.st = "ok"
                  /\ file'.cols = CanonicalColumns
                  /\ Len(file'.rows) = 0
             ELSE /\ msg' = "error"
                  /\ file' = file
                  /\ df' = before]_vars

(***************************************************************************)
(* C10.  An import in replace mode leaves the persisted table equal to    *)
(* the uploaded table, with none of the previous rows; in append mode it  *)
(* leaves the previous rows followed by the uploaded rows, each in their  *)
(* order and with every id as it was.                                      *)
(***************************************************************************)
\* The table a CSV file holds: an empty field is a missing value.
TableOf(f) ==
    DataFrame(f.cols,
              [i \in 1..Len(f.rows) |->
                 [c \in DOMAIN f.rows[i] |->
                    IF f.rows[i][c] = Str(<<>>) THEN NaN ELSE f.rows[i][c]]])

\* The cells of `row` reappear in `out`; a column the row lacks is empty.
RowKept(out, row) ==
    \A c \in DOMAIN out : IF c \in DOMAIN row THEN CellEq(out[c], row[c]) ELSE IsNA(out[c])

C10_ImportReplacesOrAppends ==
    [][op' = "import" => LET before == load_data(file) IN
       \A u \in Uploads, import_option \in {"replace", "append"} :
          (u.st = "ok" /\ ImportStep(u, import_option, before)) =>
             LET new == TableOf(u)
                 after == TableOf(file')
             IN  /\ file'.st = "ok"
                 /\ import_option = "replace" => FrameEq(after, new)
                 /\ import_option = "append" =>
                       /\ Len(after.rows) = Len(before.rows) + Len(new.rows)
                       /\ SeqToSet(after.cols) = SeqToSet(before.cols) \cup SeqToSet(new.cols)
                       /\ \A i \in 1..Len(before.rows) : RowKept(after.rows[i], before.rows[i])
                       /\ \A j \in 1..Len(new.rows) :
                             RowKept(after.rows[Len(before.rows) + j], new.rows[j])]_vars

C10_Witness ==
    /\ op = "import"
    /\ msg = "none"
    /\ Len(file.rows) = 2
    /\ file.rows[1]["id"] = Num(2)
    /\ file.rows[2]["id"] = EmptyField
    /\ file.rows[2]["nom"] = Str(<<"D", "u">>)

(***************************************************************************)
(* C11.  load_config always returns a configuration: the contents of the  *)
(* file when the file exists and parses; the hardcoded defaults when the  *)
(* file is absent, and then the defaults are also written to the file;    *)
(* the hardcoded defaults when the file exists but does not parse, and    *)
(* then the file is left exactly as it was.  Stated on the runs that no   *)
(* widget started, which do nothing to the configuration but load it.     *)
(***************************************************************************)
C11_LoadConfigContract ==
    [][op' = "run" =>
         /\ cfg' # Nothing
         /\ cfgFile.st = "ok" => (cfg' = cfgFile.json /\ cfgFile' = cfgFile)
         /\ cfgFile.st = "absent" =>
               /\ cfg'.university_name = <<"U", " ", "A", "z">>
               /\ cfg'.max_students = 1000
               /\ cfg'.min_age = 16
               /\ cfg'.max_age = 70
               /\ cfg'.specialties = <<Informatique>>
               /\ cfg'.version = <<"1", ".", "0">>
               /\ cfgFile'.st = "ok"
               /\ cfgFile'.json = cfg'
         /\ cfgFile.st = "corrupt" =>
               /\ cfg'.university_name = <<"U", " ", "A", "z">>
               /\ cfg'.max_students = 1000
               /\ cfg'.min_age = 16
               /\ cfg'.max_age = 70
               /\ cfg'.specialties = <<Informatique>>
               /\ cfg'.version = <<"1", ".", "0">>
               /\ cfgFile' = cfgFile]_vars

C11_Witness ==
    /\ op = "run"
    /\ cfgFile = UnparseableConfigFile(<<"{">>)
    /\ cfg.university_name = <<"U", " ", "A", "z">>
    /\ cfg.specialties = <<Informatique>>

(***************************************************************************)
(* C12.  Two sessions that each create a student as load the whole table, *)
(* change the copy in memory, write the whole table, can interleave so    *)
(* that both load before either writes; the table on disk then holds only *)
(* the later writer's student, the earlier writer's student is gone, and  *)
(* both sessions show the success message.  As a property of every step:  *)
(* when session b writes from a copy that session a has already extended  *)
(* by one student and saved, the table on disk becomes b's copy plus b's   *)
(* student alone, a's student is not in it, and no message changes to an  *)
(* error.                                                                  *)
(***************************************************************************)
C12_LastWriterWins ==
    [][\A a \in Sessions, b \in Sessions :
          LET n == Len(sdf[b].rows)
          IN  ( /\ a # b
                /\ pc[b] = "loaded" /\ pc'[b] = "idle" /\ smsg'[b] = "success"
                /\ pc[a] = "idle" /\ smsg[a] = "success"
                /\ Len(sdf[a].rows) = n + 1
                /\ \A i \in 1..n : sdf[a].rows[i]["id"] = sdf[b].rows[i]["id"] )
              => LET after == load_data(file')
                 IN  /\ Len(after.rows) = n + 1
                     /\ RowsEq(after.rows, sdf'[b].rows)
                     /\ \A i \in 1..n : after.rows[i]["id"] = sdf[b].rows[i]["id"]
                     /\ ~RowEq(sdf[a].rows[n + 1], sdf'[b].rows[n + 1])
                           => \A i \in 1..(n + 1) : ~RowEq(after.rows[i], sdf[a].rows[n + 1])
                     /\ smsg'[a] = "success"
                     /\ smsg'[b] = "success"]_vars

C12_Witness ==
    \E a \in Sessions, b \in Sessions :
        LET onDisk == load_data(file)
            n == Len(onDisk.rows)
        IN  /\ a # b
            /\ pc[a] = "idle" /\ pc[b] = "idle"
            /\ smsg[a] = "success" /\ smsg[b] = "success"
            /\ n > 0
            /\ Len(sdf[a].rows) = n /\ Len(sdf[b].rows) = n
            /\ RowsEq(onDisk.rows, sdf[b].rows)
            /\ ~RowEq(sdf[a].rows[n], sdf[b].rows[n])
            /\ \A i \in 1..n : ~RowEq(onDisk.rows[i], sdf[a].rows[n])

====
